---- MODULE Spec2Model ----
(***************************************************************************)
(* Model of package pandora, serialization.go: a serializer id composed    *)
(* with an ordered list of stream transformers, and the format tag that    *)
(* lets a reader rebuild the pipeline.                                     *)
(*                                                                         *)
(* Identifiers and tags are strings, modelled as sequences of one-letter   *)
(* strings so that strings.Join and strings.Split are computed.            *)
(*                                                                         *)
(* A byte stream is a sequence of blocks.  A block is                      *)
(*   [layers |-> compressions applied, innermost first,                    *)
(*    vals   |-> the serialized values, each [ser, val]].                  *)
(* A compressing writer buffers what it receives and emits one block, with *)
(* its own id appended to layers, when it is closed.  A decompressing      *)
(* reader strips the outermost layer when it carries its own id.           *)
(*                                                                         *)
(* Resources are numbered by level: 0 is the raw sink or source, level i   *)
(* is the i-th wrapper opened, which wraps level i-1.                      *)
(***************************************************************************)
EXTENDS Integers, Sequences, FiniteSets, TLC

\* ------------------------------------------------------------------ bounds
MaxTT == 2
MaxEnc == 1
MaxClose == 2

\* --------------------------------------------------------------- constants
MSGPACK == <<"m", "s", "g", "p", "a", "c", "k">>
JSON == <<"j", "s", "o", "n">>
GZIP == <<"g", "z", "i", "p">>
ZSTD == <<"z", "s", "t", "d">>

ErrInvalidFormat == "invalid format"
ErrUnknownSerializer == "unknown serializer"
ErrUnknownTransformer == "unknown transformer"

sep == <<"|">>

\* errors of the libraries behind the registries, passed through unchanged
ErrHeader == "gzip: invalid header"
ErrCorrupt == "corrupt input"
ErrSyntax == "syntax error"
ErrClosed == "closed"
EOF == "EOF"
Nil == "nil"

\* ------------------------------------------------------------ input pools
BOGUS == <<"x">>
EMPTYID == <<>>
PIPED == GZIP \o sep \o ZSTD

SerPool == {MSGPACK, JSON, BOGUS, EMPTYID}
TPool == {GZIP, ZSTD, BOGUS, PIPED}
Vals == {1, 2}

RECURSIVE SeqsUpTo(_, _)
SeqsUpTo(S, n) ==
  IF n = 0 THEN {<<>>}
  ELSE LET shorter == SeqsUpTo(S, n - 1)
       IN shorter \cup {Append(q, x) : q \in shorter, x \in S}

TTLists == SeqsUpTo(TPool, MaxTT)

\* ------------------------------------------------------------ strings
HasPrefix(str, p) ==
  /\ Len(str) >= Len(p)
  /\ SubSeq(str, 1, Len(p)) = p

RECURSIVE JoinSkipEmpty(_, _)
JoinSkipEmpty(data, sp) ==
  IF Len(data) = 0 THEN <<>>
  ELSE IF Len(data) = 1 THEN data[1]
  ELSE IF data[1] = <<>> THEN JoinSkipEmpty(Tail(data), sp)
  ELSE data[1] \o sp \o JoinSkipEmpty(Tail(data), sp)

RECURSIVE Join(_, _)
Join(data, sp) ==
  IF Len(data) = 0 THEN <<>>
  ELSE IF Len(data) = 1 THEN data[1]
  ELSE data[1] \o sp \o Join(Tail(data), sp)

RECURSIVE SplitFrom(_, _, _)
SplitFrom(str, sp, cur) ==
  IF str = <<>> THEN <<cur>>
  ELSE IF HasPrefix(str, sp)
       THEN <<cur>> \o SplitFrom(SubSeq(str, Len(sp) + 1, Len(str)), sp, <<>>)
       ELSE SplitFrom(Tail(str), sp, Append(cur, Head(str)))

Split(str, sp) == SplitFrom(str, sp, <<>>)

Contains(str, sp) == \E i \in 1..Len(str) : HasPrefix(SubSeq(str, i, Len(str)), sp)

Reverse(q) == [i \in 1..Len(q) |-> q[Len(q) + 1 - i]]

\* ------------------------------------------------------------ format tag
packSkipEmpty(s, tt) == JoinSkipEmpty(<<s>> \o tt, sep)

pack(s, tt) == Join(<<s>> \o tt, sep)

unpackKeepReceiver(s, format) ==
  LET data == Split(format, sep)
  IN [s |-> s, tt |-> IF Len(data) = 0 THEN <<>> ELSE Tail(data)]

unpack(s, format) ==
  LET data == Split(format, sep)
  IN IF Len(data) = 0
     THEN [s |-> s, tt |-> <<>>]
     ELSE [s |-> data[1], tt |-> Tail(data)]

\* ------------------------------------------------------------ registries
serializers == {MSGPACK, JSON}
transformers == {GZIP, ZSTD}

nopSerializer(err) == [kind |-> "nop", err |-> err, ser |-> <<>>, top |-> 0]
realCodec(s, n) == [kind |-> "real", err |-> Nil, ser |-> s, top |-> n]
NoCodec == [kind |-> "none", err |-> Nil, ser |-> <<>>, top |-> 0]

NewResource(t) == [t |-> t, buf |-> <<>>, closed |-> 0]
RawResource(data) == [t |-> <<>>, buf |-> data, closed |-> 0]

\* ------------------------------------------------------------ write path
\* io.WriteCloserChain / io.ReadCloserChain: a chain is the list of wrap
\* steps still to be applied, first to last; Chain runs the receiver first
\* and hands its result to next.
ChainNextFirst(transform, next) == <<next>> \o transform

Chain(transform, next) == Append(transform, next)

RECURSIVE BuildChainSkipUnknown(_, _)
BuildChainSkipUnknown(tt, transform) ==
  IF tt = <<>> THEN [known |-> TRUE, transform |-> transform]
  ELSE IF Head(tt) \notin {GZIP, ZSTD}
       THEN BuildChainSkipUnknown(Tail(tt), transform)
       ELSE BuildChainSkipUnknown(Tail(tt), Chain(transform, Head(tt)))

RECURSIVE BuildChain(_, _)
BuildChain(tt, transform) ==
  IF tt = <<>> THEN [known |-> TRUE, transform |-> transform]
  ELSE IF Head(tt) \notin transformers
       THEN [known |-> FALSE, transform |-> transform]
       ELSE BuildChain(Tail(tt), Chain(transform, Head(tt)))

\* transformers[t].Output: opens a compressing writer around the resource
\* at the top of w; gzip.NewWriterLevel(BestCompression) and
\* zstd.NewWriterLevel never fail.
TransformerOutput(t, w, n) ==
  [i \in 0..(n + 1) |-> IF i <= n THEN w[i] ELSE NewResource(t)]

RECURSIVE ApplyWriteChain(_, _, _)
ApplyWriteChain(transform, w, n) ==
  IF transform = <<>> THEN [w |-> w, top |-> n, err |-> Nil]
  ELSE ApplyWriteChain(Tail(transform), TransformerOutput(Head(transform), w, n), n + 1)

SerializerOutput(s, out) ==
  IF out.err # Nil THEN nopSerializer(out.err) ELSE realCodec(s, out.top)

EncoderOpTransformersFirst(s, w, tt) ==
  LET fmt == pack(s, tt)
      chain == BuildChain(tt, <<>>)
      out == ApplyWriteChain(chain.transform, w, 0)
  IN IF ~chain.known
     THEN [enc |-> nopSerializer(ErrUnknownTransformer), format |-> fmt, w |-> w]
     ELSE IF s \notin serializers
     THEN [enc |-> nopSerializer(ErrUnknownSerializer), format |-> fmt, w |-> w]
     ELSE [enc |-> SerializerOutput(s, out), format |-> fmt, w |-> out.w]

EncoderOp(s, w, tt) ==
  LET fmt == pack(s, tt)
      chain == BuildChain(tt, <<>>)
      out == ApplyWriteChain(chain.transform, w, 0)
  IN IF s \notin serializers
     THEN [enc |-> nopSerializer(ErrUnknownSerializer), format |-> fmt, w |-> w]
     ELSE IF ~chain.known
     THEN [enc |-> nopSerializer(ErrUnknownTransformer), format |-> fmt, w |-> w]
     ELSE [enc |-> SerializerOutput(s, out), format |-> fmt, w |-> out.w]

\* a Write on the resource at level i
WriteTo(w, i, blk) ==
  IF w[i].closed > 0
  THEN [w |-> w, err |-> ErrClosed]
  ELSE [w |-> [w EXCEPT ![i].buf = Append(@, blk)], err |-> Nil]

RECURSIVE ConcatVals(_)
ConcatVals(blocks) ==
  IF blocks = <<>> THEN <<>> ELSE Head(blocks).vals \o ConcatVals(Tail(blocks))

Compress(t, buf) ==
  [layers |-> Append(IF buf = <<>> THEN <<>> ELSE buf[1].layers, t),
   vals |-> ConcatVals(buf)]

EncodeOp(codec, w, v) ==
  IF codec.kind = "nop" THEN [w |-> w, err |-> codec.err]
  ELSE WriteTo(w, codec.top, [layers |-> <<>>, vals |-> <<[ser |-> codec.ser, val |-> v]>>])

\* Close of the compressor at level i: the first one flushes the buffered
\* stream into level i-1, later ones write nothing.
CloseCompressor(i, st) ==
  IF st.w[i].closed > 0
  THEN [st EXCEPT !.w[i].closed = @ + 1, !.log = Append(@, i)]
  ELSE LET wr == WriteTo(st.w, i - 1, Compress(st.w[i].t, st.w[i].buf))
       IN [w |-> [wr.w EXCEPT ![i].closed = 1, ![i].buf = <<>>],
           log |-> Append(st.log, i),
           lost |-> st.lost \/ wr.err # Nil]

CloseDecompressor(i, st) ==
  [st EXCEPT !.w[i].closed = @ + 1, !.log = Append(@, i)]

CloseRaw(st) == [st EXCEPT !.w[0].closed = @ + 1, !.log = Append(@, 0)]

\* io.CascadeWriteCloser(encoder, output) / io.CascadeReadCloser(decoder,
\* input): Close closes the first argument, then the second.
CascadeOriginFirst == <<"origin", "decorator">>

CascadeOrder == <<"decorator", "origin">>

RECURSIVE CloseWriteFrom(_, _)
CloseWriteFrom(i, st) ==
  IF i = 0 THEN CloseRaw(st)
  ELSE IF CascadeOrder[1] = "decorator"
       THEN CloseWriteFrom(i - 1, CloseCompressor(i, st))
       ELSE CloseCompressor(i, CloseWriteFrom(i - 1, st))

RECURSIVE CloseReadFrom(_, _)
CloseReadFrom(i, st) ==
  IF i = 0 THEN CloseRaw(st)
  ELSE IF CascadeOrder[1] = "decorator"
       THEN CloseReadFrom(i - 1, CloseDecompressor(i, st))
       ELSE CloseDecompressor(i, CloseReadFrom(i - 1, st))

\* encoding.ToEncodeCloser(enc, output).Close / nopSerializer.Close
EncoderCloseOp(codec, st) ==
  IF codec.kind = "nop" THEN st ELSE CloseWriteFrom(codec.top, st)

DecoderCloseOp(codec, st) ==
  IF codec.kind = "nop" THEN st ELSE CloseReadFrom(codec.top, st)

\* ------------------------------------------------------------ read path
Decompress(t, u) ==
  IF u.err # Nil THEN u
  ELSE IF u.data = <<>> THEN [err |-> EOF, data |-> <<>>]
  ELSE LET b == u.data[1]
       IN IF b.layers # <<>> /\ b.layers[Len(b.layers)] = t
          THEN [err |-> Nil,
                data |-> <<[layers |-> SubSeq(b.layers, 1, Len(b.layers) - 1),
                            vals |-> b.vals]>>]
          ELSE [err |-> IF t = GZIP THEN ErrHeader ELSE ErrCorrupt, data |-> <<>>]

\* what a Read on the resource at level i delivers
RECURSIVE View(_, _)
View(r, i) ==
  IF r[i].closed > 0 THEN [err |-> ErrClosed, data |-> <<>>]
  ELSE IF i = 0 THEN [err |-> Nil, data |-> r[0].buf]
  ELSE Decompress(r[i].t, View(r, i - 1))

\* transformers[t].Input: gzip.NewReader reads the stream header and may
\* fail; zstd.NewReader never fails.
TransformerInput(t, r, n) ==
  LET header == Decompress(t, View(r, n))
  IN IF t = GZIP /\ header.err # Nil
     THEN [r |-> r, top |-> n, err |-> header.err]
     ELSE [r |-> [i \in 0..(n + 1) |-> IF i <= n THEN r[i] ELSE NewResource(t)],
           top |-> n + 1, err |-> Nil]

RECURSIVE ApplyReadChain(_, _, _)
ApplyReadChain(transform, r, n) ==
  IF transform = <<>> THEN [r |-> r, top |-> n, err |-> Nil]
  ELSE LET in == TransformerInput(Head(transform), r, n)
       IN IF in.err # Nil THEN in
          ELSE ApplyReadChain(Tail(transform), in.r, in.top)

SerializerInput(s, in) ==
  IF in.err # Nil THEN nopSerializer(in.err) ELSE realCodec(s, in.top)

DecoderOpReversed(recvS, r, fmt) ==
  LET u == unpack(recvS, fmt)
      chain == BuildChain(Reverse(u.tt), <<>>)
      in == ApplyReadChain(chain.transform, r, 0)
  IN IF u.s \notin serializers
     THEN [dec |-> nopSerializer(ErrUnknownSerializer), r |-> r, s |-> u.s, tt |-> u.tt]
     ELSE IF ~chain.known
     THEN [dec |-> nopSerializer(ErrUnknownTransformer), r |-> r, s |-> u.s, tt |-> u.tt]
     ELSE [dec |-> SerializerInput(u.s, in), r |-> in.r, s |-> u.s, tt |-> u.tt]

DecoderOp(recvS, r, fmt) ==
  LET u == unpack(recvS, fmt)
      chain == BuildChain(u.tt, <<>>)
      in == ApplyReadChain(chain.transform, r, 0)
  IN IF u.s \notin serializers
     THEN [dec |-> nopSerializer(ErrUnknownSerializer), r |-> r, s |-> u.s, tt |-> u.tt]
     ELSE IF ~chain.known
     THEN [dec |-> nopSerializer(ErrUnknownTransformer), r |-> r, s |-> u.s, tt |-> u.tt]
     ELSE [dec |-> SerializerInput(u.s, in), r |-> in.r, s |-> u.s, tt |-> u.tt]

DecodeOp(codec, r, pos) ==
  IF codec.kind = "nop" THEN [err |-> codec.err, val |-> 0]
  ELSE LET u == View(r, codec.top)
           vals == ConcatVals(u.data)
       IN IF u.err # Nil THEN [err |-> u.err, val |-> 0]
          ELSE IF \E k \in 1..Len(u.data) : u.data[k].layers # <<>>
          THEN [err |-> ErrSyntax, val |-> 0]
          ELSE IF pos + 1 > Len(vals) THEN [err |-> EOF, val |-> 0]
          ELSE IF vals[pos + 1].ser # codec.ser THEN [err |-> ErrSyntax, val |-> 0]
          ELSE [err |-> Nil, val |-> vals[pos + 1].val]

\* ------------------------------------------------------------ state
VARIABLES
  recv,      \* the caller's serializer value
  ett,       \* the transformer ids handed to Encoder
  enc,       \* the EncodeCloser returned by Encoder
  format,    \* the tag returned by Encoder
  wres,      \* write side resources by level
  eresults,  \* [val, err] of every Encode call, in call order
  ecloses,   \* number of Close calls on enc
  elog,      \* levels closed on the write side, in order
  lost,      \* some compressed output was written to a closed resource
  dec,       \* the DecodeCloser returned by Decoder
  dtag,      \* the tag handed to Decoder
  dsel,      \* the serializer id and transformer ids Decoder selected
  rres,      \* read side resources by level
  dresults,  \* [err, val] of every Decode call, in call order
  dcloses,   \* number of Close calls on dec
  dlog       \* levels closed on the read side, in order

vars == <<recv, ett, enc, format, wres, eresults, ecloses, elog, lost,
          dec, dtag, dsel, rres, dresults, dcloses, dlog>>

encVars == <<ett, enc, format, wres, eresults, ecloses, elog, lost>>
decVars == <<dec, dtag, dsel, rres, dresults, dcloses, dlog>>

ExtraTags ==
  {<<>>} \cup {pack(s, tt) : s \in {JSON, BOGUS}, tt \in SeqsUpTo(transformers, 2)}

Init ==
  /\ recv \in SerPool
  /\ ett = <<>>
  /\ enc = NoCodec
  /\ format = <<>>
  /\ wres = [i \in {0} |-> RawResource(<<>>)]
  /\ eresults = <<>>
  /\ ecloses = 0
  /\ elog = <<>>
  /\ lost = FALSE
  /\ dec = NoCodec
  /\ dtag = <<>>
  /\ dsel = [s |-> <<>>, tt |-> <<>>]
  /\ rres = [i \in {0} |-> RawResource(<<>>)]
  /\ dresults = <<>>
  /\ dcloses = 0
  /\ dlog = <<>>

\* enc, format := recv.Encoder(sink, tt...)
Encoder ==
  /\ enc.kind = "none"
  /\ \E tt \in TTLists :
       LET e == EncoderOp(recv, wres, tt)
       IN /\ ett' = tt
          /\ enc' = e.enc
          /\ format' = e.format
          /\ wres' = e.w
  /\ UNCHANGED <<recv, eresults, ecloses, elog, lost>>
  /\ UNCHANGED decVars

\* enc.Encode(v)
Encode ==
  /\ enc.kind # "none"
  /\ dec.kind = "none"
  /\ Len(eresults) < MaxEnc
  /\ \E v \in Vals :
       LET e == EncodeOp(enc, wres, v)
       IN /\ wres' = e.w
          /\ eresults' = Append(eresults, [val |-> v, err |-> e.err])
  /\ UNCHANGED <<recv, ett, enc, format, ecloses, elog, lost>>
  /\ UNCHANGED decVars

\* enc.Close()
EncoderClose ==
  /\ enc.kind # "none"
  /\ dec.kind = "none"
  /\ ecloses < MaxClose
  /\ LET st == EncoderCloseOp(enc, [w |-> wres, log |-> elog, lost |-> lost])
     IN /\ wres' = st.w
        /\ elog' = st.log
        /\ lost' = st.lost
  /\ ecloses' = ecloses + 1
  /\ UNCHANGED <<recv, ett, enc, format, eresults>>
  /\ UNCHANGED decVars

\* dec := recv.Decoder(source, tag), the source holding what the sink holds
Decoder ==
  /\ enc.kind # "none"
  /\ dec.kind = "none"
  /\ \E tag \in {format} \cup ExtraTags :
       LET d == DecoderOp(recv, [i \in {0} |-> RawResource(wres[0].buf)], tag)
       IN /\ dtag' = tag
          /\ dec' = d.dec
          /\ dsel' = [s |-> d.s, tt |-> d.tt]
          /\ rres' = d.r
  /\ UNCHANGED <<recv, dresults, dcloses, dlog>>
  /\ UNCHANGED encVars

\* dec.Decode(&out)
Decode ==
  /\ dec.kind # "none"
  /\ Len(dresults) < MaxEnc
  /\ LET pos == Cardinality({k \in 1..Len(dresults) : dresults[k].err = Nil})
     IN dresults' = Append(dresults, DecodeOp(dec, rres, pos))
  /\ UNCHANGED <<recv, dec, dtag, dsel, rres, dcloses, dlog>>
  /\ UNCHANGED encVars

\* dec.Close()
DecoderClose ==
  /\ dec.kind # "none"
  /\ dcloses < MaxClose
  /\ LET st == DecoderCloseOp(dec, [w |-> rres, log |-> dlog, lost |-> FALSE])
     IN /\ rres' = st.w
        /\ dlog' = st.log
  /\ dcloses' = dcloses + 1
  /\ UNCHANGED <<recv, dec, dtag, dsel, dresults>>
  /\ UNCHANGED encVars

Next ==
  \/ Encoder
  \/ Encode
  \/ EncoderClose
  \/ Decoder
  \/ Decode
  \/ DecoderClose

Spec == Init /\ [][Next]_vars

\* ------------------------------------------------------------ properties
NoSep(id) == ~Contains(id, sep)
Tokens(tag) == Split(tag, sep)
Built(codec) == codec.kind # "none"
Levels(res) == (DOMAIN res) \ {0}
RECURSIVE Accepted(_)
Accepted(results) ==
  IF results = <<>> THEN <<>>
  ELSE IF Head(results).err = Nil
       THEN <<Head(results).val>> \o Accepted(Tail(results))
       ELSE Accepted(Tail(results))
WrapFailed(codec) ==
  /\ codec.kind = "nop"
  /\ codec.err \notin {ErrUnknownSerializer, ErrUnknownTransformer}

\* C1: for ids without the delimiter, unpacking the tag that pack(s, tt)
\* produced recovers exactly s as the serializer id and exactly tt, in order,
\* as the transformer list.
C1_PackUnpackInverse ==
  (/\ Built(dec)
   /\ dtag = format
   /\ NoSep(recv)
   /\ \A k \in 1..Len(ett) : NoSep(ett[k]))
  => dsel = [s |-> recv, tt |-> ett]

C1_Witness ==
  /\ Built(dec)
  /\ dtag = format
  /\ recv = EMPTYID
  /\ ett = <<BOGUS, GZIP>>
  /\ dsel = [s |-> EMPTYID, tt |-> <<BOGUS, GZIP>>]

\* C2: a value encoded through a registered serializer and any list of
\* registered transformers, once the encoder is closed, is decoded back
\* unchanged by the decoder built from the tag Encoder returned.
C2_RoundTrip ==
  (/\ enc.kind = "real"
   /\ ecloses >= 1
   /\ Built(dec)
   /\ dtag = format
   /\ dcloses = 0)
  => /\ dec.kind = "real"
     /\ \A k \in 1..Len(dresults) :
          k <= Len(Accepted(eresults))
          => dresults[k] = [err |-> Nil, val |-> Accepted(eresults)[k]]

C2_Witness ==
  /\ enc.kind = "real"
  /\ ett = <<GZIP, ZSTD>>
  /\ ecloses >= 1
  /\ dtag = format
  /\ dcloses = 0
  /\ eresults = <<[val |-> 2, err |-> Nil]>>
  /\ dresults = <<[err |-> Nil, val |-> 2]>>

\* C3 as stated: the last-listed transformer writes directly into the raw
\* sink and the data is compressed by t1 first and by tn last.
C3_Original ==
  (enc.kind = "real" /\ Len(ett) >= 1)
  => /\ wres[1].t = ett[Len(ett)]
     /\ (ecloses >= 1 => \A k \in 1..Len(wres[0].buf) : wres[0].buf[k].layers = ett)

\* C3 amended: wrapper i is transformer ti, so the first-listed transformer
\* writes directly into the raw sink, the encoder writes into the last-listed
\* one, and the data is compressed by tn first and by t1 last.
C3_WriteOrder ==
  (enc.kind = "real" /\ Len(ett) >= 1)
  => /\ enc.top = Len(ett)
     /\ \A i \in 1..Len(ett) : wres[i].t = ett[i]
     /\ (ecloses >= 1
         => /\ Len(wres[0].buf) = 1
            /\ wres[0].buf[1].layers = Reverse(ett))

C3_Witness ==
  /\ enc.kind = "real"
  /\ ett = <<GZIP, ZSTD>>
  /\ ecloses = 1
  /\ wres[0].buf = <<[layers |-> <<ZSTD, GZIP>>, vals |-> <<[ser |-> recv, val |-> 1]>>]>>

\* C4: an unregistered serializer id, as the first token of the tag for
\* Decoder or as the receiver of Encoder, yields a codec whose every call
\* fails with ErrUnknownSerializer, whatever the transformer ids are.
C4_UnknownSerializer ==
  /\ (Built(dec) /\ Tokens(dtag)[1] \notin {MSGPACK, JSON})
     => /\ dec.kind = "nop"
        /\ \A k \in 1..Len(dresults) : dresults[k].err = ErrUnknownSerializer
  /\ (Built(enc) /\ recv \notin {MSGPACK, JSON})
     => /\ enc.kind = "nop"
        /\ \A k \in 1..Len(eresults) : eresults[k].err = ErrUnknownSerializer

C4_Witness ==
  /\ recv = BOGUS
  /\ ett = <<BOGUS, GZIP>>
  /\ Len(eresults) = 1
  /\ eresults[1].err = ErrUnknownSerializer
  /\ dtag = format
  /\ Len(dresults) = 1
  /\ dresults[1].err = ErrUnknownSerializer

\* C5: with a registered serializer, an unregistered transformer id at any
\* position yields a codec whose every call fails with ErrUnknownTransformer,
\* and the tag Encoder returns still carries the unknown id verbatim.
C5_UnknownTransformer ==
  /\ (/\ Built(enc)
      /\ recv \in {MSGPACK, JSON}
      /\ \E k \in 1..Len(ett) : ett[k] \notin {GZIP, ZSTD})
     => /\ enc.kind = "nop"
        /\ \A k \in 1..Len(eresults) : eresults[k].err = ErrUnknownTransformer
        /\ format = Join(<<recv>> \o ett, sep)
  /\ (/\ Built(dec)
      /\ Tokens(dtag)[1] \in {MSGPACK, JSON}
      /\ \E k \in 2..Len(Tokens(dtag)) : Tokens(dtag)[k] \notin {GZIP, ZSTD})
     => /\ dec.kind = "nop"
        /\ \A k \in 1..Len(dresults) : dresults[k].err = ErrUnknownTransformer

C5_Witness ==
  /\ recv = JSON
  /\ ett = <<GZIP, BOGUS>>
  /\ format = JSON \o sep \o GZIP \o sep \o BOGUS
  /\ Len(eresults) = 1
  /\ eresults[1].err = ErrUnknownTransformer
  /\ dtag = format
  /\ Len(dresults) = 1
  /\ dresults[1].err = ErrUnknownTransformer

\* C6 as stated: the empty tag unpacks to an empty serializer id and no
\* transformers, and the decoder built from it fails with ErrInvalidFormat.
C6_EmptyTagInvalidFormat ==
  (Built(dec) /\ dtag = <<>>)
  => /\ dsel = [s |-> <<>>, tt |-> <<>>]
     /\ \A k \in 1..Len(dresults) : dresults[k].err = ErrInvalidFormat

\* C7 as stated: however often Close is called on a codec built from
\* registered ids, the raw sink or source is closed exactly once.
C7_ClosedExactlyOnce ==
  /\ (enc.kind = "real" /\ ecloses >= 1) => wres[0].closed = 1
  /\ (dec.kind = "real" /\ dcloses >= 1) => rres[0].closed = 1

\* C8: Close on an encoder closes the wrappers from the last opened to the
\* first and the raw sink last, so that every wrapper has flushed into the
\* resource it wraps before that resource is closed and the raw sink holds
\* everything that was encoded.
C8_CloseOrder ==
  (enc.kind = "real" /\ ecloses >= 1)
  => /\ Len(elog) >= enc.top + 1
     /\ \A k \in 1..(enc.top + 1) : elog[k] = enc.top + 1 - k
     /\ ~lost
     /\ \A i \in Levels(wres) : wres[i].closed >= 1 /\ wres[i].buf = <<>>
     /\ wres[0].closed >= 1
     /\ ConcatVals(wres[0].buf) =
          [k \in 1..Len(Accepted(eresults)) |-> [ser |-> recv, val |-> Accepted(eresults)[k]]]

C8_Witness ==
  /\ enc.kind = "real"
  /\ Len(ett) = 2
  /\ ecloses = 1
  /\ elog = <<2, 1, 0>>
  /\ Len(Accepted(eresults)) = 1

\* C9 as stated: when a wrap step fails while the chain is built, no wrapper
\* opened by the earlier steps is left unclosed once the caller has called
\* Close on the returned codec.
C9_NoLeakOnWrapFailure ==
  (WrapFailed(dec) /\ dcloses >= 1)
  => \A i \in Levels(rres) : rres[i].closed >= 1

\* C10: the pipeline Decoder builds is determined by the tag and the source
\* alone: it selects the tag's first token as serializer and the remaining
\* tokens as transformers, every receiver value gives the same result, and
\* the caller's serializer value is unchanged.
C10_TagDeterminesDecoder ==
  [][(~Built(dec) /\ Built(dec'))
     => /\ recv' = recv
        /\ dsel'.s = Tokens(dtag')[1]
        /\ dsel'.tt = Tail(Tokens(dtag'))
        /\ \A s2 \in SerPool :
             LET d == DecoderOp(s2, [i \in {0} |-> RawResource(wres[0].buf)], dtag')
             IN d.dec = dec' /\ d.r = rres']_vars

C10_Witness ==
  /\ dec.kind = "real"
  /\ recv = MSGPACK
  /\ dsel = [s |-> JSON, tt |-> <<GZIP>>]
  /\ dec.ser = JSON
====
